---------------------------- MODULE Spec2Model ----------------------------
(***************************************************************************)
(* A model of the three scripts of the repository:                         *)
(*   diabetes_service/score_diabetes.py          (init / run)             *)
(*   diabetes_training_from_datastore/diabetes_training.py  (logreg)      *)
(*   diabetes_training_tree/diabetes_training.py            (tree)        *)
(* The scoring service is specified by Spec, the training scripts by       *)
(* TrainSpec.  Text (JSON) is a sequence of tokens; the scripts' calls     *)
(* into json / numpy / scikit-learn are modelled by what those calls do.   *)
(***************************************************************************)
EXTENDS Integers, Sequences, FiniteSets, TLC

VARIABLES
    model,      \* service: the global `model` (NoModel while the name is unbound)
    loaded,     \* service: what the most recent successful init() loaded
    last,       \* service: the last call and its outcome
    prev,       \* service: one remembered earlier run() since the last init()
    script,     \* training: which script runs, "logreg" or "tree"
    argv,       \* training: the --regularization argument, if given
    pc,         \* training: index of the next statement in Steps(script)
    status,     \* training: "idle", "running", "done" or "failed"
    err,        \* training: the exception that ended the run
    trace,      \* training: the statements executed so far, in order
    env,        \* training: the script's variables (reg, diabetes, X_test, ...)
    bound,      \* training: the names of env assigned so far
    runLog,     \* training: the run context's scalar metrics, as logged
    images,     \* training: the run context's logged images
    outputs,    \* training: the model written to outputs/diabetes_model.pkl
    complete    \* training: run.complete() was called

svars == <<model, loaded, last, prev>>
tvars == <<script, argv, pc, status, err, trace, env, bound, runLog, images,
           outputs, complete>>
vars == <<svars, tvars>>

(***************************************************************************)
(* Bounds of the model                                                     *)
(***************************************************************************)
\* a request carries at most MaxRows feature rows
MaxRows == 2

\* a training dataset has at most MaxDataRows rows
MaxDataRows == 4

\* a feature row (eight measurements in the scripts) is abstracted to one
\* number: rows of kind 1 and rows of kind 2, which a model may tell apart
FeatureVals == {1, 2}

(***************************************************************************)
(* JSON text: tokens, json.dumps, json.loads                               *)
(***************************************************************************)
Digits == <<"1", "2", "3", "4", "5", "6", "7", "8", "9">>
StringLits == {"data", "rows", "not-diabetic", "diabetic"}

Quote(s) == "\"" \o s \o "\""
NumToks == {Digits[i] : i \in 1..Len(Digits)}
StrToks == {Quote(s) : s \in StringLits}
QuotedLits == [s \in StringLits |-> Quote(s)]
IsNumTok(t) == t \in NumToks
NumVal(t) == CHOOSE i \in 1..Len(Digits) : Digits[i] = t
IsStrTok(t) == t \in StrToks
Unquote(t) == CHOOSE s \in StringLits : QuotedLits[s] = t

\* JSON values: <<"num", n>>, <<"str", s>>, <<"arr", items>>, <<"obj", members>>
\* with members a sequence of <<key, value>>
JNum(n) == <<"num", n>>
JStr(s) == <<"str", s>>
JArr(items) == <<"arr", items>>
JObj(members) == <<"obj", members>>

ParseFail == [ok |-> FALSE, val |-> <<>>, next |-> 0]
ParseOk(v, n) == [ok |-> TRUE, val |-> v, next |-> n]

RECURSIVE ParseValue(_, _), ParseElems(_, _, _), ParseMembers(_, _, _)
ParseValue(toks, i) ==
    IF i > Len(toks) THEN ParseFail
    ELSE LET t == toks[i] IN
         IF IsNumTok(t) THEN ParseOk(JNum(NumVal(t)), i + 1)
         ELSE IF IsStrTok(t) THEN ParseOk(JStr(Unquote(t)), i + 1)
         ELSE IF t = "[" THEN
              IF i + 1 <= Len(toks) /\ toks[i + 1] = "]"
              THEN ParseOk(JArr(<<>>), i + 2)
              ELSE ParseElems(toks, i + 1, <<>>)
         ELSE IF t = "{" THEN
              IF i + 1 <= Len(toks) /\ toks[i + 1] = "}"
              THEN ParseOk(JObj(<<>>), i + 2)
              ELSE ParseMembers(toks, i + 1, <<>>)
         ELSE ParseFail

ParseElems(toks, i, acc) ==
    LET r == ParseValue(toks, i) IN
    IF ~r.ok \/ r.next > Len(toks) THEN ParseFail
    ELSE IF toks[r.next] = "," THEN ParseElems(toks, r.next + 1, Append(acc, r.val))
    ELSE IF toks[r.next] = "]" THEN ParseOk(JArr(Append(acc, r.val)), r.next + 1)
    ELSE ParseFail

ParseMembers(toks, i, acc) ==
    IF i + 1 > Len(toks) \/ ~IsStrTok(toks[i]) \/ toks[i + 1] # ":" THEN ParseFail
    ELSE LET r == ParseValue(toks, i + 2)
             m == <<Unquote(toks[i]), r.val>>
         IN
         IF ~r.ok \/ r.next > Len(toks) THEN ParseFail
         ELSE IF toks[r.next] = "," THEN ParseMembers(toks, r.next + 1, Append(acc, m))
         ELSE IF toks[r.next] = "}" THEN ParseOk(JObj(Append(acc, m)), r.next + 1)
         ELSE ParseFail

\* json.loads: the whole text must be one value
json_loads(toks) ==
    LET r == ParseValue(toks, 1) IN
    IF r.ok /\ r.next = Len(toks) + 1
    THEN [ok |-> TRUE, val |-> r.val]
    ELSE [ok |-> FALSE, val |-> <<>>]

RECURSIVE JoinComma(_)
JoinComma(parts) ==
    IF Len(parts) = 0 THEN <<>>
    ELSE IF Len(parts) = 1 THEN parts[1]
    ELSE parts[1] \o <<",">> \o JoinComma(Tail(parts))

\* json.dumps of a list of strings
json_dumps(strs) ==
    <<"[">> \o JoinComma([i \in 1..Len(strs) |-> <<Quote(strs[i])>>]) \o <<"]">>


(***************************************************************************)
(* Requests a client can send                                              *)
(***************************************************************************)
DataLists == UNION {[1..n -> FeatureVals] : n \in 0..MaxRows}

EncodeRow(f) == <<"[", Digits[f], "]">>
EncodeData(rows) ==
    <<"[">> \o JoinComma([i \in 1..Len(rows) |-> EncodeRow(rows[i])]) \o <<"]">>
EncodeRequest(key, rows) == <<"{", Quote(key), ":">> \o EncodeData(rows) \o <<"}">>

WellFormedRequests == {EncodeRequest("data", rows) : rows \in DataLists}
\* text cut short: not valid JSON
TruncatedRequest == <<"{", Quote("data"), ":", "[", "[", "1", "]", "]">>
\* a JSON object without the 'data' key
NoDataKeyRequest == EncodeRequest("rows", <<1>>)
\* valid JSON that is not an object
BareListRequest == EncodeData(<<1>>)
\* 'data' is not a list of rows
ScalarDataRequest == <<"{", Quote("data"), ":", "1", "}">>
MalformedRequests == {TruncatedRequest, NoDataKeyRequest}
RawRequests ==
    WellFormedRequests \cup MalformedRequests \cup {BareListRequest, ScalarDataRequest}

(***************************************************************************)
(* score_diabetes.py                                                       *)
(***************************************************************************)
\* (mutant) the two class names in the wrong order
classnamesSwapped == <<"diabetic", "not-diabetic">>
classnames == <<"not-diabetic", "diabetic">>

\* what a loaded estimator may predict for a row: every index python accepts
\* for classnames, and one beyond on each side
PredVals == (0 - (Len(classnames) + 1))..Len(classnames)
\* a persisted model, by the prediction it gives for each feature row
Models == [FeatureVals -> PredVals]
NoModel == <<>>

Raise(e) == [ok |-> FALSE, err |-> e, result |-> <<>>]
Return(r) == [ok |-> TRUE, err |-> "", result |-> r]

\* python's value[key] for a str key on a parsed JSON value
GetItem(v, key) ==
    IF v[1] # "obj" THEN [ok |-> FALSE, err |-> "TypeError", val |-> <<>>]
    ELSE LET ms == v[2]
             hits == {i \in 1..Len(ms) : ms[i][1] = key}
         IN
         IF hits = {} THEN [ok |-> FALSE, err |-> "KeyError", val |-> <<>>]
         ELSE [ok |-> TRUE, err |-> "",
               val |-> ms[CHOOSE i \in hits : \A j \in hits : j <= i][2]]

IsRow(v) == v[1] = "arr" /\ Len(v[2]) = 1 /\ v[2][1][1] = "num"

\* model.predict(np.array(data)): the estimator validates its input (a
\* non-empty 2-D array of numbers) and predicts one value per row
predict(m, data) ==
    IF data[1] # "arr" THEN [ok |-> FALSE, val |-> <<>>]
    ELSE LET rows == data[2] IN
         IF Len(rows) = 0 \/ \E i \in 1..Len(rows) : ~IsRow(rows[i])
         THEN [ok |-> FALSE, val |-> <<>>]
         ELSE [ok |-> TRUE, val |-> [i \in 1..Len(rows) |-> m[rows[i][2][1][2]]]]

\* python's list[k] for an integer k: negative k counts from the end
ListIndexOk(list, k) == 0 - Len(list) <= k /\ k < Len(list)
ListIndex(list, k) == IF k >= 0 THEN list[k + 1] ELSE list[Len(list) + k + 1]

\* for prediction in predictions: predicted_classes.append(classnames[prediction])
RECURSIVE ClassLoop(_, _, _)
ClassLoop(predictions, i, predicted_classes) ==
    IF i > Len(predictions) THEN [ok |-> TRUE, val |-> predicted_classes]
    ELSE IF ~ListIndexOk(classnames, predictions[i]) THEN [ok |-> FALSE, val |-> <<>>]
    ELSE ClassLoop(predictions, i + 1,
                   Append(predicted_classes, ListIndex(classnames, predictions[i])))

\* run(raw_data) with the global `model` bound to m (or unbound: NoModel)
run(m, raw_data) ==
    LET parsed == json_loads(raw_data) IN
    IF ~parsed.ok THEN Raise("JSONDecodeError")
    ELSE LET data == GetItem(parsed.val, "data") IN
         IF ~data.ok THEN Raise(data.err)
         ELSE IF m = NoModel THEN Raise("NameError")
         ELSE LET predictions == predict(m, data.val) IN
              IF ~predictions.ok THEN Raise("ValueError")
              ELSE LET classes == ClassLoop(predictions.val, 1, <<>>) IN
                   IF ~classes.ok THEN Raise("IndexError")
                   ELSE Return(json_dumps(classes.val))

\* (mutant) a failed request drops the loaded model
ModelAfterRunReset(m, raw_data) == IF run(m, raw_data).ok THEN m ELSE NoModel
\* (mutant) an answered request replaces the model
ModelAfterRunRefit(m, raw_data) ==
    IF run(m, raw_data).ok THEN [f \in FeatureVals |-> 0] ELSE m
\* the global `model` after run(): run() has no `global` statement and assigns
\* no module-level name
ModelAfterRun(m, raw_data) == m

\* (mutant) init() without `global model`: the assignment stays local
ModelAfterInitLocal(m, m_file) == m
\* the global `model` after init() loaded m_file: `global model; model = ...`
ModelAfterInit(m, m_file) == m_file

NoCall == [op |-> "none", raw |-> <<>>, out |-> Raise("")]
\* later: how many run() calls followed the remembered one (counted up to 2)
NoPrev == [set |-> FALSE, raw |-> <<>>, out |-> Raise(""), later |-> 0]

\* init(): Model.get_model_path and joblib.load succeed and return m_file
InitLoaded(m_file) ==
    /\ model' = ModelAfterInit(model, m_file)
    /\ loaded' = m_file
    /\ last' = [op |-> "init", raw |-> <<>>, out |-> Return(<<>>)]
    /\ prev' = NoPrev
    /\ UNCHANGED tvars

\* init(): Model.get_model_path or joblib.load raises before the assignment
InitRaises ==
    /\ last' = [op |-> "init", raw |-> <<>>, out |-> Raise("LoadError")]
    /\ UNCHANGED <<model, loaded, prev>>
    /\ UNCHANGED tvars

Init_ ==
    \/ \E m_file \in Models : InitLoaded(m_file)
    \/ InitRaises

\* run(raw_data); prev keeps this call or an earlier one for later comparison
Run(raw_data) ==
    LET out == run(model, raw_data) IN
    /\ model' = ModelAfterRun(model, raw_data)
    /\ last' = [op |-> "run", raw |-> raw_data, out |-> out]
    /\ \/ prev' = [set |-> TRUE, raw |-> raw_data, out |-> out, later |-> 0]
       \/ prev' = IF prev.set /\ prev.later < 2
                  THEN [prev EXCEPT !.later = @ + 1]
                  ELSE prev
    /\ UNCHANGED loaded
    /\ UNCHANGED tvars

ServiceIdle ==
    /\ model = NoModel
    /\ loaded = NoModel
    /\ last = NoCall
    /\ prev = NoPrev


(***************************************************************************)
(* diabetes_training_from_datastore/diabetes_training.py  ("logreg")       *)
(* diabetes_training_tree/diabetes_training.py            ("tree")         *)
(***************************************************************************)
\* Numbers the scripts handle as floats are fractions <<numerator, denominator>>.
Frac(n, d) == <<n, d>>
FracEq(a, b) == a[1] * b[2] = b[1] * a[2]
FracPositive(a) == a[1] * a[2] > 0

\* argparse: --regularization, type=float, default=0.01
DefaultReg == Frac(1, 100)
NoArg == [given |-> FALSE, value |-> Frac(0, 1)]
RegArgs ==
    {NoArg} \cup {[given |-> TRUE, value |-> v] :
                    v \in {Frac(0, 1), Frac(1, 10), Frac(0 - 1, 1)}}
ParseReg(a) == IF a.given THEN a.value ELSE DefaultReg

\* (mutant) a division guarded against zero
InverseGuarded(x) ==
    IF x[1] = 0 THEN [ok |-> TRUE, val |-> Frac(1, 1)]
    ELSE [ok |-> TRUE, val |-> Frac(x[2], x[1])]
\* python's 1/x on floats: ZeroDivisionError for x = 0
Inverse(x) ==
    IF x[1] = 0 THEN [ok |-> FALSE, val |-> Frac(0, 1)]
    ELSE [ok |-> TRUE, val |-> Frac(x[2], x[1])]

\* the statements of each script, in program order
LogregSteps ==
    <<"parse_args", "load", "split", "log_reg", "fit", "predict", "accuracy",
      "log_accuracy", "predict_proba", "auc", "log_auc", "dump", "complete">>
TreeSteps ==
    <<"load", "split", "fit", "predict", "accuracy", "log_accuracy",
      "predict_proba", "auc", "log_auc", "plot", "dump", "complete">>

\* s with the statement `name` moved to just before the statement `before`
RECURSIVE Without(_, _)
Without(s, name) ==
    IF s = <<>> THEN <<>>
    ELSE IF Head(s) = name THEN Without(Tail(s), name)
    ELSE <<Head(s)>> \o Without(Tail(s), name)
RECURSIVE InsertBefore(_, _, _)
InsertBefore(s, name, before) ==
    IF s = <<>> THEN <<name>>
    ELSE IF Head(s) = before THEN <<name>> \o s
    ELSE <<Head(s)>> \o InsertBefore(Tail(s), name, before)
Moved(s, name, before) == InsertBefore(Without(s, name), name, before)
ProgramOf(s) == IF s = "logreg" THEN LogregSteps ELSE TreeSteps

\* (mutant) the model is written before the metrics are logged
StepsDumpBeforeLog(s) == Moved(ProgramOf(s), "dump", "log_accuracy")
\* (mutant) run.complete() is called before the model is written
StepsCompleteBeforeDump(s) == Moved(ProgramOf(s), "complete", "dump")
\* (mutant) AUC is logged before Accuracy
StepsAucLoggedFirst(s) == Moved(ProgramOf(s), "log_accuracy", "dump")
Steps(s) == IF s = "logreg" THEN LogregSteps ELSE TreeSteps

\* train_test_split(X, y, test_size=0.30, random_state=0)
TestPercent == 30
\* n_test = ceil(test_size * n_samples), n_train = n_samples - n_test
TestSize(n) == (TestPercent * n + 99) \div 100
\* (mutant) the training set keeps every row
SplitsLeaky(n) ==
    {[train |-> 1..n, test |-> t] :
        t \in {t \in SUBSET (1..n) : Cardinality(t) = TestSize(n)}}
\* the shuffled split is some choice of TestSize(n) rows for the test set
Splits(n) ==
    {[train |-> (1..n) \ t, test |-> t] :
        t \in {t \in SUBSET (1..n) : Cardinality(t) = TestSize(n)}}

\* acc = np.average(y_hat == y_test)
np_average_eq(y_hat, y, X_test) ==
    Frac(Cardinality({i \in X_test : y_hat[i] = y[i]}), Cardinality(X_test))

\* predict_proba(X_test)[:,1] for a row: below, at or above one half
ScoreLevels == {0, 1, 2}
AboveHalf(level) == level > 1

\* roc_auc_score(y_test, y_scores[:,1]): the share of (diabetic, not diabetic)
\* pairs of test rows that the scores rank in that order, a tie counting half
roc_auc_score(y, scores, X_test) ==
    LET pos == {i \in X_test : y[i] = 1}
        neg == {i \in X_test : y[i] = 0}
        gt == {pq \in pos \X neg : scores[pq[1]] > scores[pq[2]]}
        eq == {pq \in pos \X neg : scores[pq[1]] = scores[pq[2]]}
    IN Frac(2 * Cardinality(gt) + Cardinality(eq),
            2 * Cardinality(pos) * Cardinality(neg))

\* run.log(name, np.float(value))
run_log(log, name, value) == Append(log, <<name, value>>)

NoFile == [written |-> FALSE, model |-> <<>>]
NoEnv == [reg |-> Frac(0, 1), diabetes |-> <<>>, X_train |-> {}, X_test |-> {},
          model |-> <<>>, y_hat |-> <<>>, acc |-> Frac(0, 1),
          y_scores |-> <<>>, auc |-> Frac(0, 1)]
TrainIdle ==
    /\ script = "none"
    /\ argv = NoArg
    /\ pc = 0
    /\ status = "idle"
    /\ err = ""
    /\ trace = <<>>
    /\ env = NoEnv
    /\ bound = {}
    /\ runLog = <<>>
    /\ images = <<>>
    /\ outputs = NoFile
    /\ complete = FALSE

\* the statement `name` is the next one to execute; no statement touches the
\* scoring service, the script's name or its command line
At(name) ==
    /\ status = "running"
    /\ pc <= Len(Steps(script))
    /\ Steps(script)[pc] = name
    /\ UNCHANGED <<svars, script, argv>>

\* the statement ran to its end; the script ends after its last statement
Done(name) ==
    /\ pc' = pc + 1
    /\ trace' = Append(trace, name)
    /\ status' = IF pc + 1 > Len(Steps(script)) THEN "done" ELSE "running"
    /\ err' = err

\* the statement raised: the script stops there
Raised(e) ==
    /\ status' = "failed"
    /\ err' = e
    /\ UNCHANGED <<pc, trace>>

\* a statement that reads a name not yet assigned raises NameError
Reads(names) == names \subseteq bound
NameError ==
    /\ Raised("NameError")
    /\ UNCHANGED <<env, bound, runLog, images, outputs, complete>>

\* logreg 14-18: args = parser.parse_args(); reg = args.reg_rate
parse_args ==
    /\ At("parse_args")
    /\ env' = [env EXCEPT !.reg = ParseReg(argv)]
    /\ bound' = bound \cup {"reg"}
    /\ Done("parse_args")
    /\ UNCHANGED <<runLog, images, outputs, complete>>

\* logreg 24-31, tree 17-21: read the dataset; X, y = features, labels
load ==
    /\ At("load")
    /\ \/ /\ \E n \in 0..MaxDataRows : \E y \in [1..n -> {0, 1}] :
                env' = [env EXCEPT !.diabetes = y]
          /\ bound' = bound \cup {"diabetes"}
          /\ Done("load")
       \/ /\ Raised("LoadError")
          /\ UNCHANGED <<env, bound>>
    /\ UNCHANGED <<runLog, images, outputs, complete>>

\* logreg 34, tree 24: X_train, X_test, y_train, y_test = train_test_split(...)
split ==
    /\ At("split")
    /\ IF ~Reads({"diabetes"}) THEN NameError
       ELSE LET n == Len(env.diabetes) IN
            /\ IF n = 0 \/ n - TestSize(n) = 0
               THEN /\ Raised("ValueError")
                    /\ UNCHANGED <<env, bound>>
               ELSE /\ \E sp \in Splits(n) :
                          env' = [env EXCEPT !.X_train = sp.train, !.X_test = sp.test]
                    /\ bound' = bound \cup {"split"}
                    /\ Done("split")
            /\ UNCHANGED <<runLog, images, outputs, complete>>

\* logreg 38: run.log('Regularization Rate', np.float(reg))
log_reg ==
    /\ At("log_reg")
    /\ IF ~Reads({"reg"}) THEN NameError
       ELSE /\ runLog' = run_log(runLog, "Regularization Rate", env.reg)
            /\ Done("log_reg")
            /\ UNCHANGED <<env, bound, images, outputs, complete>>

\* the labels of the training rows
TrainClasses == {env.diabetes[i] : i \in env.X_train}

\* logreg 39: model = LogisticRegression(C=1/reg, solver="liblinear").fit(...)
\* tree 28:   model = DecisionTreeClassifier().fit(X_train, y_train)
fit ==
    /\ At("fit")
    /\ IF ~Reads(IF script = "logreg" THEN {"reg", "split"} ELSE {"split"})
       THEN NameError
       ELSE LET C == IF script = "logreg" THEN Inverse(env.reg)
                     ELSE [ok |-> TRUE, val |-> Frac(1, 1)]
            IN
            /\ IF ~C.ok
               THEN /\ Raised("ZeroDivisionError")
                    /\ UNCHANGED <<env, bound>>
               ELSE IF script = "logreg"
                       /\ (~FracPositive(C.val) \/ Cardinality(TrainClasses) < 2)
               THEN /\ Raised("ValueError")
                    /\ UNCHANGED <<env, bound>>
               ELSE /\ env' = [env EXCEPT !.model =
                                 [rows |-> env.X_train, classes |-> TrainClasses,
                                  C |-> C.val]]
                    /\ bound' = bound \cup {"model"}
                    /\ Done("fit")
            /\ UNCHANGED <<runLog, images, outputs, complete>>

\* logreg 42, tree 31: y_hat = model.predict(X_test), one known class per row
predict_test ==
    /\ At("predict")
    /\ IF ~Reads({"model", "split"}) THEN NameError
       ELSE /\ \E y_hat \in [env.X_test -> env.model.classes] :
                  env' = [env EXCEPT !.y_hat = y_hat]
            /\ bound' = bound \cup {"y_hat"}
            /\ Done("predict")
            /\ UNCHANGED <<runLog, images, outputs, complete>>

\* logreg 43-44, tree 32-33: acc = np.average(y_hat == y_test)
accuracy ==
    /\ At("accuracy")
    /\ IF ~Reads({"y_hat", "split"}) THEN NameError
       ELSE /\ env' = [env EXCEPT !.acc =
                         np_average_eq(env.y_hat, env.diabetes, env.X_test)]
            /\ bound' = bound \cup {"acc"}
            /\ Done("accuracy")
            /\ UNCHANGED <<runLog, images, outputs, complete>>

\* logreg 45, tree 34: run.log('Accuracy', np.float(acc))
log_accuracy ==
    /\ At("log_accuracy")
    /\ IF ~Reads({"acc"}) THEN NameError
       ELSE /\ runLog' = run_log(runLog, "Accuracy", env.acc)
            /\ Done("log_accuracy")
            /\ UNCHANGED <<env, bound, images, outputs, complete>>

\* the scores a model can give next to the prediction it gave: class 1 is
\* predicted exactly when its probability is above one half
ScoresFor(y_hat, X_test) ==
    {sc \in [X_test -> ScoreLevels] : \A i \in X_test : AboveHalf(sc[i]) <=> (y_hat[i] = 1)}

\* logreg 48, tree 37: y_scores = model.predict_proba(X_test), one column per
\* class seen in training
predict_proba ==
    /\ At("predict_proba")
    /\ IF ~Reads({"model", "split", "y_hat"}) THEN NameError
       ELSE /\ \E sc \in ScoresFor(env.y_hat, env.X_test) :
                  env' = [env EXCEPT !.y_scores =
                            [columns |-> Cardinality(env.model.classes), p1 |-> sc]]
            /\ bound' = bound \cup {"y_scores"}
            /\ Done("predict_proba")
            /\ UNCHANGED <<runLog, images, outputs, complete>>

\* the labels of the test rows
TestClasses == {env.diabetes[i] : i \in env.X_test}

\* logreg 49-50, tree 38-39: auc = roc_auc_score(y_test, y_scores[:,1])
auc ==
    /\ At("auc")
    /\ IF ~Reads({"y_scores", "split"}) THEN NameError
       ELSE /\ IF env.y_scores.columns < 2
               THEN /\ Raised("IndexError")
                    /\ UNCHANGED <<env, bound>>
               ELSE IF Cardinality(TestClasses) < 2
               THEN /\ Raised("ValueError")
                    /\ UNCHANGED <<env, bound>>
               ELSE /\ env' = [env EXCEPT !.auc =
                                 roc_auc_score(env.diabetes, env.y_scores.p1, env.X_test)]
                    /\ bound' = bound \cup {"auc"}
                    /\ Done("auc")
            /\ UNCHANGED <<runLog, images, outputs, complete>>

\* logreg 51, tree 40: run.log('AUC', np.float(auc))
log_auc ==
    /\ At("log_auc")
    /\ IF ~Reads({"auc"}) THEN NameError
       ELSE /\ runLog' = run_log(runLog, "AUC", env.auc)
            /\ Done("log_auc")
            /\ UNCHANGED <<env, bound, images, outputs, complete>>

\* tree 43-53: roc_curve, the plot, run.log_image(name = "ROC", plot = fig)
plot ==
    /\ At("plot")
    /\ IF ~Reads({"y_scores", "split"}) THEN NameError
       ELSE /\ images' = Append(images, "ROC")
            /\ Done("plot")
            /\ UNCHANGED <<env, bound, runLog, outputs, complete>>

\* logreg 53-55, tree 55-57: joblib.dump(value=model, filename='outputs/...')
dump ==
    /\ At("dump")
    /\ IF ~Reads({"model"}) THEN NameError
       ELSE /\ outputs' = [written |-> TRUE, model |-> env.model]
            /\ Done("dump")
            /\ UNCHANGED <<env, bound, runLog, images, complete>>

\* logreg 57, tree 59: run.complete()
run_complete ==
    /\ At("complete")
    /\ complete' = TRUE
    /\ Done("complete")
    /\ UNCHANGED <<env, bound, runLog, images, outputs>>
(***************************************************************************)
(* Specifications                                                          *)
(***************************************************************************)
\* the scoring service: any sequence of init() and run() calls
ServiceInit == ServiceIdle /\ TrainIdle

ServiceNext ==
    \/ Init_
    \/ \E raw_data \in RawRequests : Run(raw_data)

Spec == ServiceInit /\ [][ServiceNext]_vars

\* one run of a training script, statement by statement
TrainInit ==
    /\ ServiceIdle
    /\ \/ script = "logreg" /\ argv \in RegArgs
       \/ script = "tree" /\ argv = NoArg
    /\ pc = 1
    /\ status = "running"
    /\ err = ""
    /\ trace = <<>>
    /\ env = NoEnv
    /\ bound = {}
    /\ runLog = <<>>
    /\ images = <<>>
    /\ outputs = NoFile
    /\ complete = FALSE

TrainNext ==
    \/ parse_args
    \/ load
    \/ split
    \/ log_reg
    \/ fit
    \/ predict_test
    \/ accuracy
    \/ log_accuracy
    \/ predict_proba
    \/ auc
    \/ log_auc
    \/ plot
    \/ dump
    \/ run_complete

TrainSpec == TrainInit /\ [][TrainNext]_vars


(***************************************************************************)
(* Properties of the scoring service (checked under Spec)                  *)
(***************************************************************************)
\* the request's rows as the JSON value run() hands to predict
RowsValue(rows) == JArr([i \in 1..Len(rows) |-> JArr(<<JNum(rows[i])>>)])
LabelOf(p) == IF p = 0 THEN "not-diabetic" ELSE "diabetic"

\* C1: after init(), a request with a 'data' list of N rows for which the model
\* predicts only 0 or 1 is answered with the JSON text of a list of exactly N
\* labels, in the order of the rows: 'not-diabetic' for 0 and 'diabetic' for 1.
C1_RunReturnsLabelsInOrder ==
    \A rows \in DataLists :
        LET p == predict(loaded, RowsValue(rows)) IN
        (/\ last.op = "run"
         /\ last.raw = EncodeRequest("data", rows)
         /\ loaded # NoModel
         /\ p.ok
         /\ \A i \in 1..Len(rows) : p.val[i] \in {0, 1})
        => /\ last.out.ok
           /\ LET r == json_loads(last.out.result) IN
              /\ r.ok
              /\ r.val[1] = "arr"
              /\ Len(r.val[2]) = Len(rows)
              /\ \A i \in 1..Len(rows) : r.val[2][i] = JStr(LabelOf(loaded[rows[i]]))

\* a two-row request answered with two different labels, in row order
C1_Witness ==
    /\ last.op = "run"
    /\ loaded # NoModel
    /\ last.raw = EncodeRequest("data", <<1, 2>>)
    /\ loaded[1] = 0
    /\ loaded[2] = 1
    /\ last.out.ok
    /\ last.out.result = <<"[", Quote("not-diabetic"), ",", Quote("diabetic"), "]">>

\* C5: a run() not preceded by a successful init() fails and returns no
\* predictions; a run() after a successful init() is answered by the model
\* the most recent successful init() loaded.
C5_RunUsesLoadedModel ==
    last.op = "run" =>
        IF loaded = NoModel
        THEN /\ ~last.out.ok
             /\ last.out.result = <<>>
             /\ (last.raw \in WellFormedRequests => last.out.err = "NameError")
        ELSE /\ model = loaded
             /\ last.out = run(loaded, last.raw)
             /\ (last.raw \in WellFormedRequests => last.out.err # "NameError")

\* a request answered from the model init() loaded
C5_Witness ==
    /\ last.op = "run"
    /\ loaded # NoModel
    /\ last.out.ok
    /\ Len(last.out.result) > 2

\* C6: a request that is not valid JSON or has no 'data' key makes run() end
\* with an error and no label list; the loaded model is unchanged by it, and a
\* later well-formed request is answered as if it had never been made.
C6_FailedRequestLeavesServiceIntact ==
    /\ (last.op = "run" /\ last.raw \in MalformedRequests)
        => /\ ~last.out.ok
           /\ last.out.err \in {"JSONDecodeError", "KeyError"}
           /\ last.out.result = <<>>
    /\ (last.op = "run" /\ ~last.out.ok) => model = loaded
    /\ (/\ prev.set
        /\ prev.raw \in MalformedRequests
        /\ prev.later > 0
        /\ last.op = "run"
        /\ last.raw \in WellFormedRequests)
        => /\ model = loaded
           /\ last.out = run(loaded, last.raw)

\* a well-formed request answered after a malformed one had failed
C6_Witness ==
    /\ prev.set
    /\ prev.raw \in MalformedRequests
    /\ ~prev.out.ok
    /\ prev.later > 0
    /\ last.op = "run"
    /\ last.raw \in WellFormedRequests
    /\ last.out.ok

\* C7: run() returns a class name only for predictions that are 0 or 1:
\* whenever run() returns a label list, every prediction behind it is 0 or 1
\* ('not-diabetic' for 0, 'diabetic' for 1).
C7_LabelsOnlyForZeroOrOne ==
    \A rows \in DataLists :
        (/\ last.op = "run"
         /\ last.raw = EncodeRequest("data", rows)
         /\ last.out.ok)
        => \A i \in 1..Len(rows) :
              /\ model[rows[i]] \in {0, 1}
              /\ json_loads(last.out.result).val[2][i] = JStr(LabelOf(model[rows[i]]))

\* C10: run() leaves the global model as it was, and a run() with the same
\* raw_data as an earlier run() since init() returns the same result, whatever
\* was served in between.
C10_RunIsStateless ==
    [][last'.op = "run"
        => /\ model' = model
           /\ (prev.set /\ prev.raw = last'.raw) => last'.out = prev.out]_vars

\* the same request answered a second time, with other calls after the first
C10_Witness ==
    /\ prev.set
    /\ prev.later = 2
    /\ last.op = "run"
    /\ last.raw = prev.raw
    /\ last.out.ok
    /\ last.out = prev.out


(***************************************************************************)
(* Properties of the training scripts (checked under TrainSpec)            *)
(***************************************************************************)
InTrace(name) == \E i \in 1..Len(trace) : trace[i] = name
Pos(name) == CHOOSE i \in 1..Len(trace) : trace[i] = name
\* `b` has been executed only after `a`
Precedes(a, b) == InTrace(b) => (InTrace(a) /\ Pos(a) < Pos(b))
Logged(name) == \E i \in 1..Len(runLog) : runLog[i][1] = name
LoggedValue(name) == runLog[CHOOSE i \in 1..Len(runLog) : runLog[i][1] = name][2]
LogNames == [i \in 1..Len(runLog) |-> runLog[i][1]]
IsEvaluationMetric(name) == name # "Regularization Rate"
Rows == 1..Len(env.diabetes)
TestCorrect == {i \in env.X_test : env.y_hat[i] = env.diabetes[i]}

\* C2 (as stated): the fitted model is serialized to disk before the scalar
\* metrics (Accuracy, AUC) are logged to the run context.
C2_DumpBeforeMetricsLogged ==
    (Logged("Accuracy") \/ Logged("AUC")) => outputs.written

\* C2 (amended): the scalar metrics (Accuracy, AUC) are logged to the run
\* context before the fitted model is serialized to disk.
C2_MetricsLoggedBeforeDump ==
    /\ outputs.written => (Logged("Accuracy") /\ Logged("AUC"))
    /\ Precedes("log_accuracy", "dump")
    /\ Precedes("log_auc", "dump")
    /\ InTrace("dump") <=> outputs.written

\* the model written with both metrics already in the log
C2_Witness ==
    /\ outputs.written
    /\ outputs.model = env.model
    /\ LogNames = <<"Accuracy", "AUC">>
    /\ trace[Len(trace)] = "dump"

\* C3: each script is a linear sequence: load before split, split before fit,
\* fit before predict / predict_proba, accuracy and AUC computed before the
\* model is written, and run.complete() last, reached only if the model
\* artifact has been written in this run.
C3_LinearSequence ==
    /\ Precedes("load", "split")
    /\ Precedes("split", "fit")
    /\ Precedes("fit", "predict")
    /\ Precedes("fit", "predict_proba")
    /\ Precedes("accuracy", "dump")
    /\ Precedes("auc", "dump")
    /\ \A i, j \in 1..Len(trace) : trace[i] = trace[j] => i = j
    /\ outputs.written => ({"acc", "auc"} \subseteq bound /\ InTrace("dump"))
    /\ complete <=> InTrace("complete")
    /\ complete => /\ outputs.written
                   /\ outputs.model = env.model
                   /\ trace[Len(trace)] = "complete"
                   /\ status = "done"
    /\ status = "done" => complete

\* a run of the tree script that reached run.complete()
C3_Witness ==
    /\ script = "tree"
    /\ complete
    /\ status = "done"
    /\ outputs.written
    /\ images = <<"ROC">>
    /\ Len(trace) = Len(TreeSteps)

\* C4: a run that reaches run.complete() has logged exactly two evaluation
\* metrics, 'Accuracy' once and then 'AUC' once, both computed from the
\* model's outputs on the test set.
C4_TwoMetricsLogged ==
    complete =>
        /\ SelectSeq(LogNames, IsEvaluationMetric) = <<"Accuracy", "AUC">>
        /\ LoggedValue("Accuracy") = Frac(Cardinality(TestCorrect), Cardinality(env.X_test))
        /\ LoggedValue("AUC") = roc_auc_score(env.diabetes, env.y_scores.p1, env.X_test)
        /\ DOMAIN env.y_hat = env.X_test
        /\ DOMAIN env.y_scores.p1 = env.X_test

\* a completed run of the logistic-regression script with a wrong prediction
C4_Witness ==
    /\ script = "logreg"
    /\ complete
    /\ LogNames = <<"Regularization Rate", "Accuracy", "AUC">>
    /\ LoggedValue("Accuracy") = Frac(1, 2)
    /\ LoggedValue("AUC") = Frac(2, 2)

\* the split, the fit and the accuracy of C8, but for the size of the test set
SplitFitAccuracy ==
    /\ "split" \in bound =>
          /\ env.X_train \cup env.X_test = Rows
          /\ env.X_train \cap env.X_test = {}
    /\ "model" \in bound =>
          /\ env.model.rows = env.X_train
          /\ env.model.rows \cap env.X_test = {}
    /\ Logged("Accuracy") =>
          /\ LoggedValue("Accuracy")[1] = Cardinality(TestCorrect)
          /\ LoggedValue("Accuracy")[2] = Cardinality(env.X_test)
          /\ TestCorrect \cap env.model.rows = {}

\* C8 (as stated): the split partitions the rows, the test set holding 30% of
\* them; the model is fitted on training rows only; the logged Accuracy is the
\* number of test rows predicted right over the number of test rows.
C8_TestSetIsThirtyPercent ==
    /\ SplitFitAccuracy
    /\ "split" \in bound => 100 * Cardinality(env.X_test) = 30 * Len(env.diabetes)

\* C8 (amended): as stated, with the test set holding 30% of the rows rounded
\* up to a whole row, ceil(0.30 * N) of N rows.
C8_TestSetIsThirtyPercentRoundedUp ==
    /\ SplitFitAccuracy
    /\ "split" \in bound =>
          /\ 100 * Cardinality(env.X_test) >= 30 * Len(env.diabetes)
          /\ 100 * (Cardinality(env.X_test) - 1) < 30 * Len(env.diabetes)

\* four rows split two and two, one of the two test rows predicted right
C8_Witness ==
    /\ Logged("Accuracy")
    /\ Len(env.diabetes) = 4
    /\ Cardinality(env.X_test) = 2
    /\ Cardinality(env.X_train) = 2
    /\ LoggedValue("Accuracy") = Frac(1, 2)
    /\ Logged("AUC")

\* C9: in the logistic-regression script C = 1/reg (reg = 0.01 by default);
\* with --regularization 0 the script fails at the division before any model
\* is fitted: no model artifact, no Accuracy or AUC in the log and no
\* run.complete(), although 'Regularization Rate' has been logged.
C9_ZeroRegularizationFails ==
    script = "logreg" =>
        /\ ("reg" \in bound /\ ~argv.given) => env.reg = Frac(1, 100)
        /\ ("reg" \in bound /\ argv.given) => env.reg = argv.value
        /\ "model" \in bound => env.model.C[1] * env.reg[1] = env.model.C[2] * env.reg[2]
        /\ (argv.given /\ argv.value[1] = 0) =>
              /\ "model" \notin bound
              /\ ~outputs.written
              /\ ~Logged("Accuracy")
              /\ ~Logged("AUC")
              /\ ~complete
              /\ status # "done"
              /\ (status = "failed" /\ InTrace("log_reg")) => err = "ZeroDivisionError"
        /\ err = "ZeroDivisionError" =>
              /\ argv.given /\ argv.value[1] = 0
              /\ runLog = <<<<"Regularization Rate", Frac(0, 1)>>>>
              /\ trace[Len(trace)] = "log_reg"

\* the run with --regularization 0, stopped at the division
C9_Witness ==
    /\ script = "logreg"
    /\ status = "failed"
    /\ err = "ZeroDivisionError"
    /\ runLog = <<<<"Regularization Rate", Frac(0, 1)>>>>
    /\ ~outputs.written
    /\ ~complete

=============================================================================
